---- MODULE Spec2Model ----
(***************************************************************************)
(* schlemiel.cpp: two ways of building "JoPaGeRi..." in a static buffer    *)
(* with strncat, a CPU-time stopwatch around each, and a printer for the   *)
(* measured durations.                                                     *)
(*                                                                         *)
(* Memory is modelled byte by byte.  STRBUFFER is a function on            *)
(* 0..STRBUFLEN: indices 0..STRBUFLEN-1 are the array, index STRBUFLEN is  *)
(* the byte that follows the array in the data segment.  A write at or     *)
(* beyond STRBUFLEN is undefined behaviour; the outcomes modelled are the  *)
(* two observed with g++: the byte lands in the adjacent memory (plain     *)
(* build), or the fortified strncat detects the overflow and the process   *)
(* aborts before writing (-D_FORTIFY_SOURCE).                              *)
(***************************************************************************)
EXTENDS Integers, Sequences, FiniteSets, TLC

\* ------------------------------------------------------------- constants
STRBUFLEN == 1024
NUL == 0
NSEC_PER_SEC == 1000000000
NSEC_PER_MSEC == 1000000

\* ---------------------------------------------------------------- bounds
\* Outer iterations of each benchmark (10000 in the source).
MaxOuter == 2
\* Seconds of the readings the CPU clock returns in a run of main.
MaxRunSec == 1
\* Seconds of the readings handed to diff when it is exercised on its own.
MaxSec == 11

\* Nanosecond fields of the clock readings of a run of main.
RunNsecs == {100, 900000000}
\* Nanosecond fields handed to diff when it is exercised on its own.
NsecSamples == {0, 100, 200, 100000000, 900000000, 999999999}
\* main is started with no argument or with one.
ArgcValues == {1, 2}

\* The tokens, as character codes: "Jo", "Pa", "Ge", "Ri".
Tokens == << <<74, 111>>, <<80, 97>>, <<71, 101>>, <<82, 105>> >>

VARIABLES
    pc,         \* main's position
    fpc,        \* position inside the running benchmark function
    argc,       \* main's argument count
    trials,     \* main's local
    STRBUFFER,  \* the static buffer and the byte after it
    j, i, step, \* loop counters of the running benchmark; step: which strncat of the body
    start, end, \* main's timespec locals, written by timeOperation
    timeSpent,  \* main's timespec local
    out,        \* the lines written to cout
    rc,         \* exit status of the process, -1 while it runs
    cpu,        \* the process CPU clock's latest reading
    wr,         \* the latest strncat: who called, where it scanned and wrote
    scanned,    \* characters scanned by strncat since the latest buffer reset
    events,     \* clock readings, calls, returns and prints, in order
    ppc, bufA, bufB, pj, iA, iB, pstep  \* the two benchmarks side by side

vars == << pc, fpc, argc, trials, STRBUFFER, j, i, step, start, end, timeSpent,
           out, rc, cpu, wr, scanned, events, ppc, bufA, bufB, pj, iA, iB, pstep >>

mainVars == << pc, fpc, argc, trials, STRBUFFER, j, i, step, start, end,
               timeSpent, out, rc, cpu, wr, scanned, events >>
pairVars == << ppc, bufA, bufB, pj, iA, iB, pstep >>

\* ------------------------------------------------------------ timespec
Timespec(s, n) == [tv_sec |-> s, tv_nsec |-> n]

\* A timespec local that has not been assigned.
Indeterminate == Timespec(-1, -1)

\* a <= b as points in time
NotAfter(a, b) ==
    \/ a.tv_sec < b.tv_sec
    \/ a.tv_sec = b.tv_sec /\ a.tv_nsec <= b.tv_nsec

RunReadings == { Timespec(s, n) : s \in 0..MaxRunSec, n \in RunNsecs }
Readings == { Timespec(s, n) : s \in 0..MaxSec, n \in NsecSamples }

\* diff without the borrow branch.
diff_NoBorrow(s, e) ==
    Timespec(e.tv_sec - s.tv_sec, e.tv_nsec - s.tv_nsec)

\* diff whose borrow branch adds the second's nanoseconds but keeps the second.
diff_NoSecBorrow(s, e) ==
    IF (e.tv_nsec - s.tv_nsec) < 0
    THEN Timespec(e.tv_sec - s.tv_sec, NSEC_PER_SEC + e.tv_nsec - s.tv_nsec)
    ELSE Timespec(e.tv_sec - s.tv_sec, e.tv_nsec - s.tv_nsec)

diff(s, e) ==
    IF (e.tv_nsec - s.tv_nsec) < 0
    THEN Timespec(e.tv_sec - s.tv_sec - 1, NSEC_PER_SEC + e.tv_nsec - s.tv_nsec)
    ELSE Timespec(e.tv_sec - s.tv_sec, e.tv_nsec - s.tv_nsec)

\* C++ integer division: the quotient is truncated towards zero.
CDiv(a, b) == IF a >= 0 THEN a \div b ELSE -((-a) \div b)

\* The printer writing the whole nanosecond field as the remainder.
PrintTimespec_WholeNanos(ts) ==
    LET timeSpecMS == CDiv(ts.tv_nsec, NSEC_PER_MSEC)
    IN [s |-> ts.tv_sec, ms |-> timeSpecMS, ns |-> ts.tv_nsec]

\* operator<<: the three numbers it writes, "<s>s <ms>ms <ns>ns".
PrintTimespec(ts) ==
    LET timeSpecMS == CDiv(ts.tv_nsec, NSEC_PER_MSEC)
    IN [s |-> ts.tv_sec, ms |-> timeSpecMS,
        ns |-> ts.tv_nsec - timeSpecMS * NSEC_PER_MSEC]

\* ------------------------------------------------------------- strncat
\* The zero-filled static array followed by a byte b of some other object.
ZeroBuffer(b) == [k \in 0..STRBUFLEN |-> IF k = STRBUFLEN THEN b ELSE NUL]

\* The byte at index k of the modelled memory; beyond it, a byte that is
\* not a terminator.
Peek(buf, k) == IF k \in 0..STRBUFLEN THEN buf[k] ELSE 1

\* A write of byte v at index k; a write beyond the modelled memory changes
\* nothing that is modelled.
Poke(buf, k, v) == IF k \in 0..STRBUFLEN THEN [buf EXCEPT ![k] = v] ELSE buf

\* strlen(buf + p): the number of bytes before the first terminator at or
\* after p (the scan of strncat for the end of dest); the scan ends at
\* STRBUFLEN + 1 when the modelled memory holds no terminator.
Strlen(buf, p) ==
    LET stop == CHOOSE k \in p..(STRBUFLEN + 1) :
                    /\ (k = STRBUFLEN + 1 \/ buf[k] = NUL)
                    /\ \A m \in p..(k - 1) : buf[m] # NUL
    IN stop - p

\* The copy loop of strncat: the first cnt characters of src to buf[at..].
RECURSIVE CopyChars(_, _, _, _)
CopyChars(buf, at, src, cnt) ==
    IF cnt = 0 THEN buf
    ELSE Poke(CopyChars(buf, at, src, cnt - 1), at + cnt - 1, src[cnt])

\* An append that copies the characters and writes no terminator (memcpy).
strncat_NoTerminator(buf, dest, src, n) ==
    LET len == Strlen(buf, dest)
        cnt == IF Len(src) < n THEN Len(src) ELSE n
        at  == dest + len
        hi  == at + cnt
    IN [buf |-> CopyChars(buf, at, src, cnt),
        scan |-> len, at |-> at, hi |-> hi, ok |-> TRUE]

\* strncat(buf + dest, src, n): scan for the end of the string at dest,
\* copy at most n characters of src there, then write a terminator.
\* scan: characters scanned; at: index of the first character written;
\* hi: index of the terminator written, the highest index written.
strncat(buf, dest, src, n) ==
    LET len == Strlen(buf, dest)
        cnt == IF Len(src) < n THEN Len(src) ELSE n
        at  == dest + len
        hi  == at + cnt
    IN [buf |-> Poke(CopyChars(buf, at, src, cnt), hi, NUL),
        scan |-> len, at |-> at, hi |-> hi, ok |-> TRUE]

\* What a strncat call can do.  Within the array: the append.  With a byte
\* past the array: undefined behaviour, either the append with the byte
\* landing in the adjacent memory, or the fortified build's abort.
Outcomes(buf, call) ==
    LET r == strncat(buf, call.dest, call.src, call.n)
    IN IF r.hi < STRBUFLEN
       THEN {r}
       ELSE {r, [r EXCEPT !.buf = buf, !.ok = FALSE]}

\* The strncat calls of inefficientStringConcat's loop body (s = 0..3).
IneffCall(ii, s) == [dest |-> 0, src |-> Tokens[s + 1], n |-> STRBUFLEN]

\* The efficient body with "Pa" and "Ge" in each other's place.
EffCall_Swapped(ii, s) ==
    [dest |-> ii + 2 * s,
     src |-> Tokens[IF s = 1 THEN 3 ELSE IF s = 2 THEN 2 ELSE s + 1],
     n |-> STRBUFLEN - ii]

\* The strncat calls of efficientStringConcat's loop body (s = 0..3).
EffCall(ii, s) == [dest |-> ii + 2 * s, src |-> Tokens[s + 1], n |-> STRBUFLEN - ii]

NoWrite == [fn |-> "none", k |-> 0, dest |-> 0, scan |-> 0, at |-> 0, hi |-> 0]

Event(ev, fn, t) == [ev |-> ev, fn |-> fn, t |-> t]

\* ------------------------------------------------------------------ Init
PairOff ==
    /\ ppc = "off" /\ bufA = <<>> /\ bufB = <<>>
    /\ pj = 0 /\ iA = 0 /\ iB = 0 /\ pstep = 0

\* Entry to main.  The static buffer is zero-initialised; the byte after it
\* belongs to another object and is 0 or not.  The process has used no CPU
\* time yet.
Init ==
    /\ pc = "main" /\ fpc = "none"
    /\ argc \in ArgcValues
    /\ trials = 0
    /\ STRBUFFER \in {ZeroBuffer(b) : b \in {NUL, 1}}
    /\ j = 0 /\ i = 0 /\ step = 0
    /\ start = Indeterminate /\ end = Indeterminate /\ timeSpent = Indeterminate
    /\ out = <<>>
    /\ rc = -1
    /\ cpu = Timespec(0, 0)
    /\ wr = NoWrite
    /\ scanned = 0
    /\ events = <<>>
    /\ PairOff

\* ------------------------------------------------------------------ main
\* int trials = 1; if (argc > 1) { ... }: the branch does nothing.
MainArgs ==
    /\ pc = "main"
    /\ trials' = 1
    /\ pc' = "time1"
    /\ UNCHANGED << fpc, argc, STRBUFFER, j, i, step, start, end, timeSpent,
                    out, rc, cpu, wr, scanned, events >>
    /\ UNCHANGED pairVars

\* getTime(): the process CPU clock never runs backwards.
getTime(t) == t \in RunReadings /\ NotAfter(cpu, t)

\* timeOperation that takes its start reading only on its first use.
TimeOperationStart_StaleStart ==
    /\ pc \in {"time1", "time2"}
    /\ \E t \in RunReadings :
        /\ getTime(t)
        /\ start' = IF pc = "time1" THEN t ELSE start
        /\ cpu' = t
        /\ LET fn == IF pc = "time1" THEN "inefficientStringConcat"
                                     ELSE "efficientStringConcat"
           IN events' = events \o << Event("getTime", fn, t), Event("call", fn, t) >>
    /\ pc' = IF pc = "time1" THEN "ineff" ELSE "eff"
    /\ fpc' = "outer"
    /\ j' = 0
    /\ UNCHANGED << argc, trials, STRBUFFER, i, step, end, timeSpent, out, rc,
                    wr, scanned >>
    /\ UNCHANGED pairVars

\* timeOperation, up to the call: start = getTime(); function();
TimeOperationStart ==
    /\ pc \in {"time1", "time2"}
    /\ \E t \in RunReadings :
        /\ getTime(t)
        /\ start' = t
        /\ cpu' = t
        /\ LET fn == IF pc = "time1" THEN "inefficientStringConcat"
                                     ELSE "efficientStringConcat"
           IN events' = events \o << Event("getTime", fn, t), Event("call", fn, t) >>
    /\ pc' = IF pc = "time1" THEN "ineff" ELSE "eff"
    /\ fpc' = "outer"
    /\ j' = 0
    /\ UNCHANGED << argc, trials, STRBUFFER, i, step, end, timeSpent, out, rc,
                    wr, scanned >>
    /\ UNCHANGED pairVars

\* timeOperation, after the call: end = getTime(); return diff(start, end);
\* and main's assignment of the result to timeSpent.
TimeOperationEnd ==
    /\ pc \in {"timed1", "timed2"}
    /\ \E t \in RunReadings :
        /\ getTime(t)
        /\ end' = t
        /\ cpu' = t
        /\ timeSpent' = diff(start, t)
        /\ LET fn == IF pc = "timed1" THEN "inefficientStringConcat"
                                      ELSE "efficientStringConcat"
           IN events' = Append(events, Event("getTime", fn, t))
    /\ pc' = IF pc = "timed1" THEN "print1" ELSE "print2"
    /\ UNCHANGED << fpc, argc, trials, STRBUFFER, j, i, step, start, out, rc,
                    wr, scanned >>
    /\ UNCHANGED pairVars

\* cout << timeSpent << endl;
MainPrint ==
    /\ pc \in {"print1", "print2"}
    /\ out' = Append(out, PrintTimespec(timeSpent))
    /\ LET fn == IF pc = "print1" THEN "inefficientStringConcat"
                                  ELSE "efficientStringConcat"
       IN events' = Append(events, Event("print", fn, timeSpent))
    /\ pc' = IF pc = "print1" THEN "time2" ELSE "return"
    /\ UNCHANGED << fpc, argc, trials, STRBUFFER, j, i, step, start, end,
                    timeSpent, rc, cpu, wr, scanned >>
    /\ UNCHANGED pairVars

\* return 0;
MainReturn ==
    /\ pc = "return"
    /\ rc' = 0
    /\ pc' = "done"
    /\ UNCHANGED << fpc, argc, trials, STRBUFFER, j, i, step, start, end,
                    timeSpent, out, cpu, wr, scanned, events >>
    /\ UNCHANGED pairVars

\* ------------------------------------------------ inefficientStringConcat
\* for (int j = 0; j < 10000; j++): the test, and the return after the loop.
IneffOuter ==
    /\ pc = "ineff" /\ fpc = "outer"
    /\ IF j < MaxOuter
       THEN /\ fpc' = "reset"
            /\ UNCHANGED << pc, events >>
       ELSE /\ fpc' = "none"
            /\ pc' = "timed1"
            /\ events' = Append(events, Event("return", "inefficientStringConcat", start))
    /\ UNCHANGED << argc, trials, STRBUFFER, j, i, step, start, end, timeSpent,
                    out, rc, cpu, wr, scanned >>
    /\ UNCHANGED pairVars

\* The outer loop body without STRBUFFER[0] = '\0'.
IneffReset_NoClear ==
    /\ pc = "ineff" /\ fpc = "reset"
    /\ i' = 0
    /\ scanned' = 0
    /\ fpc' = "inner"
    /\ UNCHANGED << pc, argc, trials, STRBUFFER, j, step, start, end, timeSpent,
                    out, rc, cpu, wr, events >>
    /\ UNCHANGED pairVars

\* STRBUFFER[0] = '\0'; and the inner loop's int i = 0
IneffReset ==
    /\ pc = "ineff" /\ fpc = "reset"
    /\ STRBUFFER' = [STRBUFFER EXCEPT ![0] = NUL]
    /\ i' = 0
    /\ scanned' = 0
    /\ fpc' = "inner"
    /\ UNCHANGED << pc, argc, trials, j, step, start, end, timeSpent, out, rc,
                    cpu, wr, events >>
    /\ UNCHANGED pairVars

\* i < STRBUFLEN/8: into the body, or out of the inner loop and j++
IneffInner ==
    /\ pc = "ineff" /\ fpc = "inner"
    /\ IF i < STRBUFLEN \div 8
       THEN fpc' = "cat" /\ step' = 0 /\ j' = j
       ELSE fpc' = "outer" /\ step' = step /\ j' = j + 1
    /\ UNCHANGED << pc, argc, trials, STRBUFFER, i, start, end, timeSpent, out,
                    rc, cpu, wr, scanned, events >>
    /\ UNCHANGED pairVars

\* One of the four strncat(STRBUFFER, token, STRBUFLEN) of the body; after
\* the fourth, i++.
IneffCat ==
    /\ pc = "ineff" /\ fpc = "cat"
    /\ \E r \in Outcomes(STRBUFFER, IneffCall(i, step)) :
        IF r.ok
        THEN /\ STRBUFFER' = r.buf
             /\ wr' = [fn |-> "ineff", k |-> 4 * i + step + 1, dest |-> 0,
                       scan |-> r.scan, at |-> r.at, hi |-> r.hi]
             /\ scanned' = scanned + r.scan
             /\ IF step = 3
                THEN i' = i + 1 /\ fpc' = "inner" /\ step' = step
                ELSE i' = i /\ fpc' = fpc /\ step' = step + 1
             /\ UNCHANGED << pc, rc >>
        ELSE /\ pc' = "aborted"
             /\ rc' = 134
             /\ UNCHANGED << STRBUFFER, wr, scanned, i, fpc, step >>
    /\ UNCHANGED << argc, trials, j, start, end, timeSpent, out, cpu, events >>
    /\ UNCHANGED pairVars

\* -------------------------------------------------- efficientStringConcat
EffOuter ==
    /\ pc = "eff" /\ fpc = "outer"
    /\ IF j < MaxOuter
       THEN /\ fpc' = "reset"
            /\ UNCHANGED << pc, events >>
       ELSE /\ fpc' = "none"
            /\ pc' = "timed2"
            /\ events' = Append(events, Event("return", "efficientStringConcat", start))
    /\ UNCHANGED << argc, trials, STRBUFFER, j, i, step, start, end, timeSpent,
                    out, rc, cpu, wr, scanned >>
    /\ UNCHANGED pairVars

EffReset ==
    /\ pc = "eff" /\ fpc = "reset"
    /\ STRBUFFER' = [STRBUFFER EXCEPT ![0] = NUL]
    /\ i' = 0
    /\ scanned' = 0
    /\ fpc' = "inner"
    /\ UNCHANGED << pc, argc, trials, j, step, start, end, timeSpent, out, rc,
                    cpu, wr, events >>
    /\ UNCHANGED pairVars

\* i < STRBUFLEN: into the body, or out of the inner loop and j++
EffInner ==
    /\ pc = "eff" /\ fpc = "inner"
    /\ IF i < STRBUFLEN
       THEN fpc' = "cat" /\ step' = 0 /\ j' = j
       ELSE fpc' = "outer" /\ step' = step /\ j' = j + 1
    /\ UNCHANGED << pc, argc, trials, STRBUFFER, i, start, end, timeSpent, out,
                    rc, cpu, wr, scanned, events >>
    /\ UNCHANGED pairVars

\* One of the four strncat(STRBUFFER+i+2s, token, STRBUFLEN-i) of the body;
\* after the fourth, i = i+8.
EffCat ==
    /\ pc = "eff" /\ fpc = "cat"
    /\ \E r \in Outcomes(STRBUFFER, EffCall(i, step)) :
        IF r.ok
        THEN /\ STRBUFFER' = r.buf
             /\ wr' = [fn |-> "eff", k |-> 4 * (i \div 8) + step + 1,
                       dest |-> EffCall(i, step).dest,
                       scan |-> r.scan, at |-> r.at, hi |-> r.hi]
             /\ scanned' = scanned + r.scan
             /\ IF step = 3
                THEN i' = i + 8 /\ fpc' = "inner" /\ step' = step
                ELSE i' = i /\ fpc' = fpc /\ step' = step + 1
             /\ UNCHANGED << pc, rc >>
        ELSE /\ pc' = "aborted"
             /\ rc' = 134
             /\ UNCHANGED << STRBUFFER, wr, scanned, i, fpc, step >>
    /\ UNCHANGED << argc, trials, j, start, end, timeSpent, out, cpu, events >>
    /\ UNCHANGED pairVars

Next ==
    \/ MainArgs
    \/ TimeOperationStart
    \/ IneffOuter
    \/ IneffReset
    \/ IneffInner
    \/ IneffCat
    \/ TimeOperationEnd
    \/ MainPrint
    \/ EffOuter
    \/ EffReset
    \/ EffInner
    \/ EffCat
    \/ MainReturn

Spec == Init /\ [][Next]_vars

\* ------------------------------------------------- diff and operator<<
\* diff and the printer on their own: any two readings, then diff, then
\* the printer on diff's result.
MainOff ==
    /\ fpc = "none" /\ argc = 1 /\ trials = 0 /\ STRBUFFER = <<>>
    /\ j = 0 /\ i = 0 /\ step = 0
    /\ rc = -1 /\ cpu = Timespec(0, 0) /\ wr = NoWrite /\ scanned = 0
    /\ events = <<>>

ClockInit ==
    /\ pc = "elapsed"
    /\ start \in Readings
    /\ end \in Readings
    /\ timeSpent = Indeterminate
    /\ out = <<>>
    /\ MainOff
    /\ PairOff

ClockElapsed ==
    /\ pc = "elapsed"
    /\ timeSpent' = diff(start, end)
    /\ pc' = "show"
    /\ UNCHANGED << fpc, argc, trials, STRBUFFER, j, i, step, start, end, out,
                    rc, cpu, wr, scanned, events >>
    /\ UNCHANGED pairVars

ClockShow ==
    /\ pc = "show"
    /\ out' = Append(out, PrintTimespec(timeSpent))
    /\ pc' = "shown"
    /\ UNCHANGED << fpc, argc, trials, STRBUFFER, j, i, step, start, end,
                    timeSpent, rc, cpu, wr, scanned, events >>
    /\ UNCHANGED pairVars

ClockNext == ClockElapsed \/ ClockShow

SpecClock == ClockInit /\ [][ClockNext]_vars

\* ------------------------------------------- the benchmarks side by side
\* inefficientStringConcat on bufA and efficientStringConcat on bufB, one
\* statement of each per step, each from a buffer some earlier code left.
Pattern(k) == Tokens[((k % 8) \div 2) + 1][(k % 2) + 1]

InitBuffers ==
    { ZeroBuffer(NUL),
      [k \in 0..STRBUFLEN |-> 88],
      [k \in 0..STRBUFLEN |-> IF k = STRBUFLEN THEN NUL ELSE Pattern(k)],
      [k \in 0..STRBUFLEN |-> IF k % 3 = 1 THEN NUL ELSE 120] }

PairInit ==
    /\ ppc = "outer"
    /\ bufA \in InitBuffers
    /\ bufB \in InitBuffers
    /\ pj = 0 /\ iA = 0 /\ iB = 0 /\ pstep = 0
    /\ pc = "pair" /\ start = Indeterminate /\ end = Indeterminate
    /\ timeSpent = Indeterminate /\ out = <<>>
    /\ MainOff

\* j < 10000, in both
PairOuter ==
    /\ ppc = "outer"
    /\ ppc' = IF pj < MaxOuter THEN "reset" ELSE "done"
    /\ UNCHANGED << bufA, bufB, pj, iA, iB, pstep >>
    /\ UNCHANGED mainVars

\* STRBUFFER[0] = '\0' and i = 0, in both
PairReset ==
    /\ ppc = "reset"
    /\ bufA' = [bufA EXCEPT ![0] = NUL]
    /\ bufB' = [bufB EXCEPT ![0] = NUL]
    /\ iA' = 0 /\ iB' = 0
    /\ ppc' = "inner"
    /\ UNCHANGED << pj, pstep >>
    /\ UNCHANGED mainVars

\* The inner loop tests: i < STRBUFLEN/8 in the one, i < STRBUFLEN in the
\* other.  "mismatch": one loop goes on while the other has ended.
PairInner ==
    /\ ppc = "inner"
    /\ LET a == iA < STRBUFLEN \div 8
           b == iB < STRBUFLEN
       IN IF a /\ b THEN ppc' = "cat" /\ pstep' = 0 /\ pj' = pj
          ELSE IF ~a /\ ~b THEN ppc' = "outer" /\ pstep' = pstep /\ pj' = pj + 1
          ELSE ppc' = "mismatch" /\ pstep' = pstep /\ pj' = pj
    /\ UNCHANGED << bufA, bufB, iA, iB >>
    /\ UNCHANGED mainVars

\* The same strncat of the body in both; "aborted" when either aborts.
PairCat ==
    /\ ppc = "cat"
    /\ \E ra \in Outcomes(bufA, IneffCall(iA, pstep)) :
       \E rb \in Outcomes(bufB, EffCall(iB, pstep)) :
        /\ bufA' = ra.buf
        /\ bufB' = rb.buf
        /\ IF ra.ok /\ rb.ok
           THEN IF pstep = 3
                THEN iA' = iA + 1 /\ iB' = iB + 8 /\ ppc' = "inner" /\ pstep' = pstep
                ELSE iA' = iA /\ iB' = iB /\ ppc' = ppc /\ pstep' = pstep + 1
           ELSE iA' = iA /\ iB' = iB /\ ppc' = "aborted" /\ pstep' = pstep
    /\ UNCHANGED pj
    /\ UNCHANGED mainVars

PairNext == PairOuter \/ PairReset \/ PairInner \/ PairCat

SpecPair == PairInit /\ [][PairNext]_vars

\* ================================================================ claims
Normalized(t) == t.tv_nsec >= 0 /\ t.tv_nsec <= 999999999

\* e is a later point in time than s
Later(s, e) == NotAfter(s, e) /\ s # e

\* An outer iteration of the running benchmark has just ended.
AfterOuterIteration == pc \in {"ineff", "eff"} /\ fpc = "outer" /\ j > 0

\* The null-terminated strings at the start of a and of b are the same.
SameContent(a, b) ==
    LET la == Strlen(a, 0)
    IN /\ la = Strlen(b, 0)
       /\ \A k \in 0..(la - 1) : Peek(a, k) = Peek(b, k)

\* C1: every byte a strncat of either benchmark writes, the terminator
\* included, lands at an index in 0..1023 of the 1024-byte STRBUFFER.
C1_WritesStayInBuffer ==
    wr.fn \in {"ineff", "eff"} => (wr.at >= 0 /\ wr.hi <= 1023)

\* C2: after every outer iteration of either variant the terminator is
\* inside the 1024-byte buffer and the characters before it are a prefix of
\* "JoPaGeRi" repeated 128 times.
C2_ContentAfterOuterIteration ==
    AfterOuterIteration =>
        LET len == Strlen(STRBUFFER, 0)
        IN /\ len <= 1023
           /\ \A k \in 0..(len - 1) : STRBUFFER[k] = Pattern(k)

\* C3: stepped side by side from any two initial buffers, both loops run the
\* same number of appends, and after the n-th completed append of an outer
\* iteration (n = 0..512), after each outer iteration and at the end, the
\* two buffers hold the same null-terminated string.
C3_SameContent ==
    /\ ppc # "mismatch"
    /\ (ppc \in {"inner", "cat", "done"} \/ (ppc = "outer" /\ pj > 0))
        => SameContent(bufA, bufB)
    /\ ppc = "cat" => (iB = 8 * iA /\ 4 * iA + pstep <= 511)
    /\ ppc = "inner" => (iB = 8 * iA /\ 4 * iA <= 512)

\* C3's case: mid-iteration, after 5 appends, the two buffers differ as
\* memory (stale bytes) and both have acted.
C3_Witness ==
    /\ ppc = "cat" /\ pj = 0 /\ 4 * iA + pstep = 5
    /\ bufA # bufB
    /\ Strlen(bufA, 0) = 10

\* C4: for normalized readings with end later than start, diff returns
\* non-negative seconds and nanoseconds in [0, 999,999,999].
C4_ElapsedNormalized ==
    (/\ pc \in {"show", "shown"}
     /\ Normalized(start) /\ Normalized(end)
     /\ Later(start, end))
    => (/\ timeSpent.tv_sec >= 0
        /\ timeSpent.tv_nsec >= 0
        /\ timeSpent.tv_nsec <= 999999999)

\* C4's case: a borrow across the second boundary.
C4_Witness ==
    /\ pc = "show"
    /\ start = Timespec(0, 999999999) /\ end = Timespec(1, 0)
    /\ timeSpent = Timespec(0, 1)

\* C5: for normalized readings with end at or after start, diff returns the
\* exact elapsed time, sec * 10^9 + nsec = end - start in nanoseconds (the
\* seconds' difference moved to the left so that no product exceeds 10^9),
\* borrowing one second exactly when end.nsec < start.nsec; and the two
\* examples.
C5_ElapsedExact ==
    (/\ pc \in {"show", "shown"}
     /\ Normalized(start) /\ Normalized(end)
     /\ NotAfter(start, end))
    => (/\ (timeSpent.tv_sec - (end.tv_sec - start.tv_sec)) * 1000000000
             + timeSpent.tv_nsec = end.tv_nsec - start.tv_nsec
        /\ Normalized(timeSpent)
        /\ timeSpent.tv_sec = end.tv_sec - start.tv_sec
                                - (IF end.tv_nsec < start.tv_nsec THEN 1 ELSE 0)
        /\ (start = Timespec(10, 900000000) /\ end = Timespec(11, 100000000))
             => timeSpent = Timespec(0, 200000000)
        /\ (start = Timespec(5, 100) /\ end = Timespec(5, 200))
             => timeSpent = Timespec(0, 100))

\* C5's case: the borrow example, after diff.
C5_Witness ==
    /\ pc = "show"
    /\ start = Timespec(10, 900000000) /\ end = Timespec(11, 100000000)
    /\ timeSpent.tv_sec = 0

\* C6: the events of main are always a prefix of: reading, call of the
\* inefficient benchmark, its return, reading, print, reading, call of the
\* efficient benchmark, its return, reading, print; each benchmark runs only
\* between its call and its return; each printed line is the printer's
\* output for diff of the two readings that bracket that benchmark; and at
\* main's return all ten events have happened and two lines are printed.
CanonEv == << "getTime", "call", "return", "getTime", "print",
              "getTime", "call", "return", "getTime", "print" >>
CanonFn(k) == IF k <= 5 THEN "inefficientStringConcat" ELSE "efficientStringConcat"

C7_PrinterFields ==
    (pc = "shown" /\ Normalized(timeSpent))
    => (/\ Len(out) = 1
        /\ out[1].s = timeSpent.tv_sec
        /\ out[1].ms >= 0 /\ out[1].ms <= 999
        /\ out[1].ns >= 0 /\ out[1].ns <= 999999
        /\ out[1].ms * 1000000 + out[1].ns = timeSpent.tv_nsec)

\* C7's case: the largest fields.
C7_Witness ==
    /\ pc = "shown"
    /\ timeSpent.tv_nsec = 999999999
    /\ out[1].ms = 999 /\ out[1].ns = 999999

\* C8: the program always completes and returns success: whenever the
\* process has ended, it ended at main's return with exit code 0.
C8_ReturnsSuccess == rc # -1 => (pc = "done" /\ rc = 0)

\* C9: in efficientStringConcat the byte at every append's target address
\* (i + 2*step, i in 0, 8, ..., 1016) is the terminator when the append
\* starts, and every append done scanned 0 characters and wrote its token at
\* the target and the terminator right after it, nothing later.
C9_NoRescan ==
    /\ (pc = "eff" /\ fpc = "cat") =>
          /\ i % 8 = 0 /\ i >= 0 /\ i <= 1016
          /\ STRBUFFER[i + 2 * step] = NUL
    /\ wr.fn = "eff" =>
          /\ wr.scan = 0
          /\ wr.dest = 8 * ((wr.k - 1) \div 4) + 2 * ((wr.k - 1) % 4)
          /\ wr.at = wr.dest
          /\ wr.hi = wr.dest + 2
          /\ STRBUFFER[wr.at] = Tokens[((wr.k - 1) % 4) + 1][1]
          /\ STRBUFFER[wr.at + 1] = Tokens[((wr.k - 1) % 4) + 1][2]
    /\ pc = "eff" /\ fpc \in {"inner", "cat"} => scanned = 0

\* C9's case: an append of the second outer iteration has acted and the next
\* one is about to start, with the previous iteration's characters still
\* beyond its target.
C9_Witness ==
    /\ pc = "eff" /\ fpc = "cat" /\ j = 1 /\ i = 8 /\ step = 1
    /\ wr.fn = "eff" /\ wr.at = 8
    /\ STRBUFFER[i + 2 * step + 1] = 97

\* C10: in inefficientStringConcat the k-th append of an outer iteration
\* (k = 1..512) starts with content length 2(k-1), scans 2(k-1) characters
\* and writes its token at 2(k-1) and 2(k-1)+1; the characters scanned in a
\* whole outer iteration are 261,632, against 0 in the efficient variant.
C10_IneffScans ==
    /\ (pc = "ineff" /\ fpc = "cat") =>
          /\ 4 * i + step + 1 >= 1 /\ 4 * i + step + 1 <= 512
          /\ Strlen(STRBUFFER, 0) = 2 * (4 * i + step)
          /\ scanned = (4 * i + step) * (4 * i + step - 1)
    /\ wr.fn = "ineff" =>
          /\ wr.k >= 1 /\ wr.k <= 512
          /\ wr.scan = 2 * (wr.k - 1)
          /\ wr.at = 2 * (wr.k - 1)
          /\ STRBUFFER[wr.at] = Tokens[((wr.k - 1) % 4) + 1][1]
          /\ STRBUFFER[wr.at + 1] = Tokens[((wr.k - 1) % 4) + 1][2]
    /\ (pc = "ineff" /\ AfterOuterIteration) => scanned = 261632
    /\ (pc = "eff" /\ AfterOuterIteration) => scanned = 0

\* C10's case: a whole outer iteration of the inefficient variant is done.
C10_Witness ==
    /\ pc = "ineff" /\ AfterOuterIteration
    /\ wr.fn = "ineff" /\ wr.k = 512 /\ wr.scan = 1022
    /\ scanned = 261632

====
